---- MODULE Spec2Model ----
(***************************************************************************)
(* grpc-haclient: the connection registry (clientConnManager) and the      *)
(* supervisor (haclient) that keeps one connection per endpoint alive.     *)
(*                                                                         *)
(* Endpoints are strings; a string is modelled as the tuple of its         *)
(* character codes so that sort.Strings' byte-wise order is computed.      *)
(* A *grpc.ClientConn is a handle 1..MaxHandles, nil is Nil; closeCount    *)
(* counts the Close() calls each handle has received.                      *)
(***************************************************************************)
EXTENDS Integers, Sequences, FiniteSets, TLC

\* ------------------------------------------------------------- bounds
\* handles that dial / the registry's driver may create
MaxHandles == 3
\* ResetConn calls per run (every call grows m.endpoints, see ResetConn)
MaxResets == 4
\* roundRobin lookups made one by one from a cursor window's start
MaxCursor == 4
\* roundRobin lookups that concurrent callers make in all
MaxLookups == 5

\* ---------------------------------------------------------- constants
MaxInt32 == 2147483647
MinInt32 == -MaxInt32 - 1
\* the startup budget of newHAClient: for i := 0; i < 30; i++
StartupPolls == 30

Nil == 0
Handles == 1..MaxHandles

\* "" : the zero string
EmptyString == <<>>
\* "a", "ab", "b"
Endpoints == {<<1>>, <<1, 2>>, <<2>>}
\* endpoint lists handed to New: none, one, and the unsorted pair ["b","a"]
Configs == {<<>>, <<<<2>>>>, <<<<2>>, <<1>>>>}

Callers == {"c1", "c2"}

VARIABLES
    \* clientConnManager
    connSet,            \* endpoint -> handle or Nil (a missing key reads nil)
    endpoints,          \* []string
    lastRoundRobinIdx,  \* int32
    \* grpc.ClientConn objects
    closeCount,         \* handle -> number of Close() calls received
    nextHandle,         \* the next handle a dial or the driver creates
    \* a RoundRobinConn call in progress, per caller
    rrpc,               \* "idle" | "loop"
    firstEndpoint,      \* its local firstEndpoint
    attempts,           \* roundRobin() lookups it has made
    ret,                \* what the caller's last call returned
    panicked,           \* an index-out-of-range panic ended the process
    \* haclient
    phase,              \* "new" | "poll" | "running" | "failed" | "invalid"
    pollI,              \* i of newHAClient's loop
    cfgEndpoints,       \* c.endpoints
    onceDone,           \* c.once
    ctxDone,            \* c.ctx is cancelled
    taskpc,             \* keepalive goroutine per endpoint: "none" | "tick" | "probe" | "dial" | "probeNew" | "exit"
    taskcc,             \* its local cc
    \* history
    lastReg,            \* endpoint -> the value last passed to ResetConn
    registered,         \* handles ever passed to ResetConn
    liveAtClose,        \* handles in connSet when CloseAll first ran
    closeCalls,         \* Close() calls made on the haclient (2: two or more)
    rrLog,              \* endpoints returned by RoundRobinConn calls in a row
    args,               \* the arguments New was called with
    lastProbe,          \* handle -> result of the last readinessProbeRPC on it
    seenIdx,            \* cursor values that concurrent lookups have obtained
    \* the collaborators
    healthy             \* endpoint -> its dial and probe succeed from now on

registryVars == <<connSet, endpoints, lastRoundRobinIdx>>
connVars == <<closeCount, nextHandle>>
callerVars == <<rrpc, firstEndpoint, attempts, ret, panicked>>
clientVars == <<phase, pollI, cfgEndpoints, onceDone, ctxDone, taskpc, taskcc>>
historyVars == <<lastReg, registered, liveAtClose, closeCalls>>
auxVars == <<args, lastProbe, seenIdx, healthy>>
vars == <<registryVars, connVars, callerVars, clientVars, historyVars, rrLog, auxVars>>

\* ------------------------------------------------------------ helpers
\* s < t for Go strings (byte-wise lexicographic)
RECURSIVE StrLess(_, _)
StrLess(s, t) ==
    IF t = <<>> THEN FALSE
    ELSE IF s = <<>> THEN TRUE
    ELSE IF Head(s) # Head(t) THEN Head(s) < Head(t)
    ELSE StrLess(Tail(s), Tail(t))

RECURSIVE InsertSorted(_, _)
InsertSorted(s, x) ==
    IF s = <<>> THEN <<x>>
    ELSE IF StrLess(x, Head(s)) THEN <<x>> \o s
    ELSE <<Head(s)>> \o InsertSorted(Tail(s), x)

SortStrings_Unsorted(s) == s

\* sort.Strings
RECURSIVE SortStrings(_)
SortStrings(s) ==
    IF s = <<>> THEN <<>> ELSE InsertSorted(SortStrings(Tail(s)), Head(s))

\* atomic.AddInt32: two's complement wrap-around
AddInt32(x, d) ==
    IF d > 0 /\ x > MaxInt32 - d THEN MinInt32 + (d - (MaxInt32 - x) - 1)
    ELSE IF d < 0 /\ x < MinInt32 - d THEN MaxInt32 - ((x - MinInt32) - d - 1)
    ELSE x + d

\* Go's % : the remainder truncates toward zero and takes the dividend's sign
\* (|a| is taken as (-(a + 1)) + 1, which stays in range for a = MinInt32)
GoRem(a, n) == IF a >= 0 THEN a % n ELSE -((((-(a + 1)) % n) + 1) % n)

NoRet == [op |-> "none", cc |-> Nil, err |-> "", endpoint |-> EmptyString, n |-> 0]

\* ------------------------------------------------- clientConnManager
\* The scan of ResetConn: on a match it `continue`s, which only moves on to
\* the next idx; nothing leaves the loop early.
RECURSIVE ScanEndpoints(_, _, _)
ScanEndpoints(eps, endpoint, idx) ==
    IF idx < Len(eps)
    THEN IF eps[idx + 1] = endpoint
         THEN ScanEndpoints(eps, endpoint, idx + 1)
         ELSE ScanEndpoints(eps, endpoint, idx + 1)
    ELSE idx

ResetConn_NoClose(endpoint, cc) ==
    LET idx == ScanEndpoints(endpoints, endpoint, 0)
        eps == IF idx >= Len(endpoints) THEN Append(endpoints, endpoint) ELSE endpoints
    IN /\ closeCount' = closeCount
       /\ connSet' = [connSet EXCEPT ![endpoint] = cc]
       /\ endpoints' = SortStrings(eps)

ResetConn_KeepSlot(endpoint, cc) ==
    LET oldConn == connSet[endpoint]
        idx == ScanEndpoints(endpoints, endpoint, 0)
        eps == IF idx >= Len(endpoints) THEN Append(endpoints, endpoint) ELSE endpoints
    IN /\ closeCount' = IF oldConn # Nil
                        THEN [closeCount EXCEPT ![oldConn] = @ + 1]
                        ELSE closeCount
       /\ connSet' = IF cc = Nil THEN connSet ELSE [connSet EXCEPT ![endpoint] = cc]
       /\ endpoints' = SortStrings(eps)

ResetConn(endpoint, cc) ==
    LET oldConn == connSet[endpoint]
        idx == ScanEndpoints(endpoints, endpoint, 0)
        eps == IF idx >= Len(endpoints) THEN Append(endpoints, endpoint) ELSE endpoints
    IN /\ closeCount' = IF oldConn # Nil
                        THEN [closeCount EXCEPT ![oldConn] = @ + 1]
                        ELSE closeCount
       /\ connSet' = [connSet EXCEPT ![endpoint] = cc]
       /\ endpoints' = SortStrings(eps)

GetConn(endpoint) == connSet[endpoint]

RECURSIVE FirstAvailableFrom(_)
FirstAvailableFrom(eps) ==
    IF eps = <<>> THEN [cc |-> Nil, err |-> "NoAvailableConnection"]
    ELSE IF connSet[Head(eps)] # Nil THEN [cc |-> connSet[Head(eps)], err |-> ""]
    ELSE FirstAvailableFrom(Tail(eps))

FirstAvailableConn == FirstAvailableFrom(endpoints)

\* roundRobin(): the cursor after the call, the endpoint and connection
\* selected; panic when the index is out of range
roundRobin_NoAdvance ==
    IF Len(endpoints) > 0
    THEN LET idx == lastRoundRobinIdx
             i == GoRem(AddInt32(idx, 1), Len(endpoints))
         IN IF i < 0
            THEN [cc |-> Nil, endpoint |-> EmptyString, idx |-> idx, panic |-> TRUE]
            ELSE [cc |-> connSet[endpoints[i + 1]], endpoint |-> endpoints[i + 1],
                  idx |-> idx, panic |-> FALSE]
    ELSE [cc |-> Nil, endpoint |-> EmptyString, idx |-> lastRoundRobinIdx, panic |-> FALSE]

roundRobin ==
    IF Len(endpoints) > 0
    THEN LET idx == AddInt32(lastRoundRobinIdx, 1)
             i == GoRem(idx, Len(endpoints))
         IN IF i < 0
            THEN [cc |-> Nil, endpoint |-> EmptyString, idx |-> idx, panic |-> TRUE]
            ELSE [cc |-> connSet[endpoints[i + 1]], endpoint |-> endpoints[i + 1],
                  idx |-> idx, panic |-> FALSE]
    ELSE [cc |-> Nil, endpoint |-> EmptyString, idx |-> lastRoundRobinIdx, panic |-> FALSE]

\* One pass of RoundRobinConn's loop for caller p (one roundRobin() call);
\* a caller that is idle enters the function first (firstEndpoint = "").
RoundRobinConn(p) ==
    LET first == IF rrpc[p] = "idle" THEN EmptyString ELSE firstEndpoint[p]
        n == IF rrpc[p] = "idle" THEN 1 ELSE attempts[p] + 1
        r == roundRobin
        return(cc, err) ==
            /\ rrpc' = [rrpc EXCEPT ![p] = "idle"]
            /\ firstEndpoint' = [firstEndpoint EXCEPT ![p] = EmptyString]
            /\ attempts' = [attempts EXCEPT ![p] = 0]
            /\ ret' = [ret EXCEPT ![p] = [op |-> "RoundRobin", cc |-> cc, err |-> err,
                                          endpoint |-> IF cc = Nil THEN EmptyString
                                                       ELSE r.endpoint,
                                          n |-> n]]
            /\ panicked' = panicked
        continue(f) ==
            /\ rrpc' = [rrpc EXCEPT ![p] = "loop"]
            /\ firstEndpoint' = [firstEndpoint EXCEPT ![p] = f]
            /\ attempts' = [attempts EXCEPT ![p] = n]
            /\ ret' = [ret EXCEPT ![p] = NoRet]
            /\ panicked' = panicked
    IN /\ lastRoundRobinIdx' = r.idx
       /\ IF r.panic
          THEN /\ panicked' = TRUE
               /\ rrpc' = [rrpc EXCEPT ![p] = "idle"]
               /\ firstEndpoint' = [firstEndpoint EXCEPT ![p] = EmptyString]
               /\ attempts' = [attempts EXCEPT ![p] = 0]
               /\ ret' = [ret EXCEPT ![p] = [op |-> "RoundRobin", cc |-> Nil,
                                             err |-> "panic", endpoint |-> EmptyString,
                                             n |-> n]]
          ELSE IF r.endpoint = EmptyString THEN return(Nil, "NoAvailableConnection")
          ELSE IF r.cc # Nil THEN return(r.cc, "")
          ELSE IF first = EmptyString THEN continue(r.endpoint)
          ELSE IF first = r.endpoint THEN return(Nil, "NoAvailableConnection")
          ELSE continue(first)
       /\ UNCHANGED <<connSet, endpoints>>

\* CloseAll: Close() on every non-nil entry; the map keeps its entries
CloseAll ==
    closeCount' = [h \in Handles |->
                     closeCount[h] + Cardinality({e \in Endpoints : connSet[e] = h})]

Range(s) == {s[i] : i \in DOMAIN s}

\* New has not been called
NoArgs == [eps |-> <<>>, probe |-> FALSE, called |-> FALSE]

\* the last k entries of s (all of s when it is shorter)
LastOf(s, k) == IF Len(s) <= k THEN s ELSE SubSeq(s, Len(s) - k + 1, Len(s))

Init ==
    /\ connSet = [e \in Endpoints |-> Nil]
    /\ endpoints = <<>>
    /\ lastRoundRobinIdx = -1
    /\ closeCount = [h \in Handles |-> 0]
    /\ nextHandle = 1
    /\ rrpc = [p \in Callers |-> "idle"]
    /\ firstEndpoint = [p \in Callers |-> EmptyString]
    /\ attempts = [p \in Callers |-> 0]
    /\ ret = [p \in Callers |-> NoRet]
    /\ panicked = FALSE
    /\ phase = "new"
    /\ pollI = 0
    /\ cfgEndpoints = <<>>
    /\ onceDone = FALSE
    /\ ctxDone = FALSE
    /\ taskpc = [e \in Endpoints |-> "none"]
    /\ taskcc = [e \in Endpoints |-> Nil]
    /\ lastReg = [e \in Endpoints |-> Nil]
    /\ registered = {}
    /\ liveAtClose = {}
    /\ closeCalls = 0
    /\ rrLog = <<>>
    /\ args = NoArgs
    /\ lastProbe = [h \in Handles |-> "none"]
    /\ seenIdx = {}
    /\ healthy = [e \in Endpoints |-> FALSE]

\* history kept beside a ResetConn(endpoint, cc) call
NoteReset(endpoint, cc) ==
    /\ lastReg' = [lastReg EXCEPT ![endpoint] = cc]
    /\ registered' = IF cc = Nil THEN registered ELSE registered \cup {cc}

\* no RoundRobinConn call is under way (and the process has not panicked)
Idle == ~panicked /\ \A p \in Callers : rrpc[p] = "idle"

\* a roundRobin lookup may start: the cursor is in the window after -1, or
\* in the window around the int32 wrap
CursorInWindow ==
    \/ lastRoundRobinIdx \in -1..(MaxCursor - 1)
    \/ lastRoundRobinIdx >= MaxInt32 - 1
    \/ lastRoundRobinIdx < MinInt32 + MaxCursor

\* ---------------------------------------------------------------------
\* The registry driven directly, one call after the other, the way
\* TestClientConnManager drives it.
Driver == "c1"

\* mgr.ResetConn(endpoint, nil) / mgr.ResetConn(endpoint, &grpc.ClientConn{})
TestResetConn(endpoint, fresh) ==
    /\ Idle
    /\ Len(endpoints) < MaxResets
    /\ fresh => nextHandle <= MaxHandles
    /\ LET cc == IF fresh THEN nextHandle ELSE Nil
       IN /\ ResetConn(endpoint, cc)
          /\ NoteReset(endpoint, cc)
    /\ nextHandle' = IF fresh THEN nextHandle + 1 ELSE nextHandle
    /\ ret' = [p \in Callers |-> NoRet]
    /\ rrLog' = <<>>
    /\ UNCHANGED <<lastRoundRobinIdx, rrpc, firstEndpoint, attempts, panicked,
                   clientVars, liveAtClose, closeCalls, auxVars>>

\* mgr.GetConn(endpoint)
TestGetConn(endpoint) ==
    /\ Idle
    /\ ret' = [ret EXCEPT ![Driver] = [op |-> "GetConn", cc |-> GetConn(endpoint),
                                       err |-> "", endpoint |-> endpoint, n |-> 0]]
    /\ rrLog' = <<>>
    /\ UNCHANGED <<registryVars, connVars, rrpc, firstEndpoint, attempts, panicked,
                   clientVars, historyVars, auxVars>>

\* mgr.FirstAvailableConn()
TestFirstAvailableConn ==
    /\ Idle
    /\ ret' = [ret EXCEPT ![Driver] = [op |-> "FirstAvailable",
                                       cc |-> FirstAvailableConn.cc,
                                       err |-> FirstAvailableConn.err,
                                       endpoint |-> EmptyString, n |-> 0]]
    /\ rrLog' = <<>>
    /\ UNCHANGED <<registryVars, connVars, rrpc, firstEndpoint, attempts, panicked,
                   clientVars, historyVars, auxVars>>

\* mgr.RoundRobinConn(), one pass of its loop per step; rrLog lists the
\* endpoints of the connections returned by calls that follow one another
TestRoundRobinConn ==
    /\ ~panicked
    /\ rrpc[Driver] = "idle" => CursorInWindow
    /\ RoundRobinConn(Driver)
    /\ rrLog' = IF rrpc'[Driver] = "loop" THEN rrLog
                ELSE IF ret'[Driver].err = ""
                THEN LastOf(Append(rrLog, ret'[Driver].endpoint), Cardinality(Endpoints))
                ELSE <<>>
    /\ UNCHANGED <<connVars, clientVars, historyVars, auxVars>>

\* the roundRobin() lookups that take the cursor from the first window to
\* MaxInt32 - 1; every index on the way is in range
RoundRobinLookups ==
    /\ Idle
    /\ Len(endpoints) > 0
    /\ lastRoundRobinIdx \in 0..MaxCursor
    /\ lastRoundRobinIdx' = MaxInt32 - 1
    /\ ret' = [p \in Callers |-> NoRet]
    /\ rrLog' = <<>>
    /\ UNCHANGED <<connSet, endpoints, connVars, rrpc, firstEndpoint, attempts,
                   panicked, clientVars, historyVars, auxVars>>

NextRegistry ==
    \/ \E e \in Endpoints, fresh \in BOOLEAN : TestResetConn(e, fresh)
    \/ \E e \in Endpoints : TestGetConn(e)
    \/ TestFirstAvailableConn
    \/ TestRoundRobinConn
    \/ RoundRobinLookups

SpecRegistry == Init /\ [][NextRegistry]_vars

\* ---------------------------------------------------------------------
\* The registry under concurrent use: goroutines that call ResetConn while
\* two callers are inside GetConn, FirstAvailableConn and RoundRobinConn.
\* Every method takes m.mutex, so each is one step; RoundRobinConn takes
\* it once per pass of its loop.

\* the endpoints the goroutines keep alive
ConcEndpoints == {<<1>>, <<2>>}

ConcResetConn(endpoint, fresh) ==
    /\ ~panicked
    /\ Len(endpoints) < MaxResets
    /\ fresh => nextHandle <= MaxHandles
    /\ LET cc == IF fresh THEN nextHandle ELSE Nil
       IN /\ ResetConn(endpoint, cc)
          /\ NoteReset(endpoint, cc)
    /\ nextHandle' = IF fresh THEN nextHandle + 1 ELSE nextHandle
    /\ UNCHANGED <<lastRoundRobinIdx, callerVars, clientVars, liveAtClose, closeCalls,
                   rrLog, auxVars>>

ConcGetConn(p, endpoint) ==
    /\ ~panicked
    /\ rrpc[p] = "idle"
    /\ ret' = [ret EXCEPT ![p] = [op |-> "GetConn", cc |-> GetConn(endpoint),
                                  err |-> "", endpoint |-> endpoint, n |-> 0]]
    /\ UNCHANGED <<registryVars, connVars, rrpc, firstEndpoint, attempts, panicked,
                   clientVars, historyVars, rrLog, auxVars>>

ConcFirstAvailableConn(p) ==
    /\ ~panicked
    /\ rrpc[p] = "idle"
    /\ ret' = [ret EXCEPT ![p] = [op |-> "FirstAvailable",
                                  cc |-> FirstAvailableConn.cc,
                                  err |-> FirstAvailableConn.err,
                                  endpoint |-> EmptyString, n |-> 0]]
    /\ UNCHANGED <<registryVars, connVars, rrpc, firstEndpoint, attempts, panicked,
                   clientVars, historyVars, rrLog, auxVars>>

\* one pass of RoundRobinConn's loop; seenIdx collects the values that
\* atomic.AddInt32 returned
ConcRoundRobinConn(p) ==
    /\ ~panicked
    /\ lastRoundRobinIdx < MaxLookups - 1
    /\ RoundRobinConn(p)
    /\ seenIdx' = IF Len(endpoints) > 0 THEN seenIdx \cup {roundRobin.idx} ELSE seenIdx
    /\ UNCHANGED <<connVars, clientVars, historyVars, rrLog, args, lastProbe, healthy>>

NextConc ==
    \/ \E e \in ConcEndpoints, fresh \in BOOLEAN : ConcResetConn(e, fresh)
    \/ \E p \in Callers, e \in ConcEndpoints : ConcGetConn(p, e)
    \/ \E p \in Callers : ConcFirstAvailableConn(p)
    \/ \E p \in Callers : ConcRoundRobinConn(p)

SpecConc == Init /\ [][NextConc]_vars

\* ---------------------------------------------------------------------
\* haclient: New / newHAClient, the keepalive goroutines, Close and the
\* two selection calls.

New_NoCheck(eps, probeSet) ==
    /\ ~panicked
    /\ phase = "new"
    /\ phase' = "poll"
    /\ pollI' = 0
    /\ cfgEndpoints' = eps
    /\ taskpc' = [e \in Endpoints |-> IF e \in Range(eps) THEN "tick" ELSE "none"]
    /\ args' = [eps |-> eps, probe |-> probeSet, called |-> TRUE]
    /\ UNCHANGED <<registryVars, connVars, callerVars, onceDone, ctxDone, taskcc,
                   historyVars, rrLog, lastProbe, seenIdx, healthy>>

\* New(endpoints, readinessProbeRPC): the argument checks, then the client
\* is built and `go c.keepalive()` starts one goroutine per endpoint, each
\* waiting for its first tick.
New(eps, probeSet) ==
    /\ ~panicked
    /\ phase = "new"
    /\ IF Len(eps) = 0 \/ ~probeSet
       THEN /\ phase' = "invalid"
            /\ UNCHANGED <<pollI, cfgEndpoints, taskpc>>
       ELSE /\ phase' = "poll"
            /\ pollI' = 0
            /\ cfgEndpoints' = eps
            /\ taskpc' = [e \in Endpoints |-> IF e \in Range(eps) THEN "tick" ELSE "none"]
    /\ args' = [eps |-> eps, probe |-> probeSet, called |-> TRUE]
    /\ UNCHANGED <<registryVars, connVars, callerVars, onceDone, ctxDone, taskcc,
                   historyVars, rrLog, lastProbe, seenIdx, healthy>>

Poll_NoCheck ==
    /\ ~panicked
    /\ phase = "poll"
    /\ pollI < StartupPolls
    /\ phase' = "running"
    /\ pollI' = 0
    /\ UNCHANGED <<registryVars, connVars, callerVars, cfgEndpoints, onceDone, ctxDone,
                   taskpc, taskcc, historyVars, rrLog, auxVars>>

\* one pass of newHAClient's loop: sleep, then FirstAvailableConn; the
\* client is returned when it succeeds (i goes out of scope), else i++
Poll ==
    /\ ~panicked
    /\ phase = "poll"
    /\ pollI < StartupPolls
    /\ IF FirstAvailableConn.err = ""
       THEN phase' = "running" /\ pollI' = 0
       ELSE phase' = phase /\ pollI' = pollI + 1
    /\ UNCHANGED <<registryVars, connVars, callerVars, cfgEndpoints, onceDone, ctxDone,
                   taskpc, taskcc, historyVars, rrLog, auxVars>>

HAClose_NoOnce ==
    /\ onceDone' = TRUE
    /\ CloseAll
    /\ liveAtClose' = IF onceDone THEN liveAtClose
                      ELSE {connSet[e] : e \in Endpoints} \ {Nil}
    /\ closeCalls' = IF closeCalls < 2 THEN closeCalls + 1 ELSE closeCalls
    /\ UNCHANGED ctxDone

\* haclient.Close: c.once.Do(CloseAll); c.cancel is never called, so the
\* context stays as it is
HAClose ==
    /\ IF onceDone
       THEN UNCHANGED <<onceDone, closeCount, liveAtClose>>
       ELSE /\ onceDone' = TRUE
            /\ CloseAll
            /\ liveAtClose' = {connSet[e] : e \in Endpoints} \ {Nil}
    /\ closeCalls' = IF closeCalls < 2 THEN closeCalls + 1 ELSE closeCalls
    /\ UNCHANGED ctxDone

\* the loop of newHAClient ran out: c.Close(), then the error is returned
NewGiveUp ==
    /\ ~panicked
    /\ phase = "poll"
    /\ pollI >= StartupPolls
    /\ HAClose
    /\ phase' = "failed"
    /\ UNCHANGED <<registryVars, nextHandle, callerVars, pollI, cfgEndpoints, taskpc,
                   taskcc, lastReg, registered, rrLog, auxVars>>

\* Close() called by the owner of a client that New returned
Close ==
    /\ ~panicked
    /\ phase = "running"
    /\ HAClose
    /\ UNCHANGED <<registryVars, nextHandle, callerVars, phase, pollI, cfgEndpoints,
                   taskpc, taskcc, lastReg, registered, rrLog, auxVars>>

\* room for one more ResetConn, counting those the goroutines that hold a
\* dialed connection may still make
ResetRoom ==
    Len(endpoints) + Cardinality({e \in Endpoints : taskpc[e] = "probeNew"}) < MaxResets

\* keepalive, the select: ctx.Done() ends the goroutine; on a tick it
\* reads GetConn(endpoint) and goes on to probe it or to dial
Tick(endpoint) ==
    /\ ~panicked
    /\ taskpc[endpoint] = "tick"
    /\ IF ctxDone
       THEN /\ taskpc' = [taskpc EXCEPT ![endpoint] = "exit"]
            /\ UNCHANGED taskcc
       ELSE /\ taskcc' = [taskcc EXCEPT ![endpoint] = GetConn(endpoint)]
            /\ taskpc' = [taskpc EXCEPT ![endpoint] =
                            IF GetConn(endpoint) # Nil THEN "probe" ELSE "dial"]
    /\ UNCHANGED <<registryVars, connVars, callerVars, phase, pollI, cfgEndpoints,
                   onceDone, ctxDone, historyVars, rrLog, auxVars>>

\* readinessProbeRPC(cc) on the registered connection returns: nothing to
\* do on success, ResetConn(endpoint, nil) on failure
ProbeRegistered(endpoint, ok) ==
    /\ ~panicked
    /\ taskpc[endpoint] = "probe"
    /\ healthy[endpoint] => ok
    /\ lastProbe' = [lastProbe EXCEPT ![taskcc[endpoint]] = IF ok THEN "ok" ELSE "fail"]
    /\ IF ok
       THEN UNCHANGED <<connSet, endpoints, closeCount, lastReg, registered>>
       ELSE /\ ResetRoom
            /\ ResetConn(endpoint, Nil)
            /\ NoteReset(endpoint, Nil)
    /\ taskpc' = [taskpc EXCEPT ![endpoint] = "tick"]
    /\ taskcc' = [taskcc EXCEPT ![endpoint] = Nil]
    /\ UNCHANGED <<lastRoundRobinIdx, nextHandle, callerVars, phase, pollI, cfgEndpoints,
                   onceDone, ctxDone, liveAtClose, closeCalls, rrLog, args, seenIdx,
                   healthy>>

\* c.dial(endpoint) returns: an error, or a new connection to probe
Dial(endpoint, ok) ==
    /\ ~panicked
    /\ taskpc[endpoint] = "dial"
    /\ healthy[endpoint] => ok
    /\ IF ok
       THEN /\ nextHandle <= MaxHandles
            /\ ResetRoom
            /\ taskcc' = [taskcc EXCEPT ![endpoint] = nextHandle]
            /\ nextHandle' = nextHandle + 1
            /\ taskpc' = [taskpc EXCEPT ![endpoint] = "probeNew"]
       ELSE /\ taskpc' = [taskpc EXCEPT ![endpoint] = "tick"]
            /\ UNCHANGED <<taskcc, nextHandle>>
    /\ UNCHANGED <<registryVars, closeCount, callerVars, phase, pollI, cfgEndpoints,
                   onceDone, ctxDone, historyVars, rrLog, auxVars>>

ProbeDialed_AlwaysRegister(endpoint, ok) ==
    /\ ~panicked
    /\ taskpc[endpoint] = "probeNew"
    /\ healthy[endpoint] => ok
    /\ lastProbe' = [lastProbe EXCEPT ![taskcc[endpoint]] = IF ok THEN "ok" ELSE "fail"]
    /\ ResetConn(endpoint, taskcc[endpoint])
    /\ NoteReset(endpoint, taskcc[endpoint])
    /\ taskpc' = [taskpc EXCEPT ![endpoint] = "tick"]
    /\ taskcc' = [taskcc EXCEPT ![endpoint] = Nil]
    /\ UNCHANGED <<lastRoundRobinIdx, nextHandle, callerVars, phase, pollI, cfgEndpoints,
                   onceDone, ctxDone, liveAtClose, closeCalls, rrLog, args, seenIdx,
                   healthy>>

\* readinessProbeRPC(cc) on the connection just dialed returns: cc.Close()
\* on failure, ResetConn(endpoint, cc) on success
ProbeDialed(endpoint, ok) ==
    /\ ~panicked
    /\ taskpc[endpoint] = "probeNew"
    /\ healthy[endpoint] => ok
    /\ lastProbe' = [lastProbe EXCEPT ![taskcc[endpoint]] = IF ok THEN "ok" ELSE "fail"]
    /\ IF ok
       THEN /\ ResetConn(endpoint, taskcc[endpoint])
            /\ NoteReset(endpoint, taskcc[endpoint])
       ELSE /\ closeCount' = [closeCount EXCEPT ![taskcc[endpoint]] = @ + 1]
            /\ UNCHANGED <<connSet, endpoints, lastReg, registered>>
    /\ taskpc' = [taskpc EXCEPT ![endpoint] = "tick"]
    /\ taskcc' = [taskcc EXCEPT ![endpoint] = Nil]
    /\ UNCHANGED <<lastRoundRobinIdx, nextHandle, callerVars, phase, pollI, cfgEndpoints,
                   onceDone, ctxDone, liveAtClose, closeCalls, rrLog, args, seenIdx,
                   healthy>>

\* The collaborators: from this step on the dial of the endpoint and the
\* readiness probes of its connections succeed.
Heal(endpoint) ==
    /\ ~panicked
    /\ phase \in {"poll", "running"}
    /\ taskpc[endpoint] # "none"
    /\ ~healthy[endpoint]
    /\ healthy' = [healthy EXCEPT ![endpoint] = TRUE]
    /\ UNCHANGED <<registryVars, connVars, callerVars, clientVars, historyVars, rrLog,
                   args, lastProbe, seenIdx>>

\* haclient.FirstAvailable, called on a client that New returned
FirstAvailable(p) ==
    /\ ~panicked
    /\ phase = "running"
    /\ rrpc[p] = "idle"
    /\ ret' = [ret EXCEPT ![p] = [op |-> "FirstAvailable",
                                  cc |-> FirstAvailableConn.cc,
                                  err |-> FirstAvailableConn.err,
                                  endpoint |-> EmptyString, n |-> 0]]
    /\ UNCHANGED <<registryVars, connVars, rrpc, firstEndpoint, attempts, panicked,
                   clientVars, historyVars, rrLog, auxVars>>

\* haclient.RoundRobin, one pass of RoundRobinConn's loop per step
RoundRobin(p) ==
    /\ ~panicked
    /\ phase = "running"
    /\ rrpc[p] = "idle" => CursorInWindow
    /\ RoundRobinConn(p)
    /\ UNCHANGED <<connVars, clientVars, historyVars, rrLog, auxVars>>

Next ==
    \/ \E eps \in Configs, probeSet \in BOOLEAN : New(eps, probeSet)
    \/ Poll
    \/ NewGiveUp
    \/ Close
    \/ \E e \in Endpoints : Tick(e)
    \/ \E e \in Endpoints, ok \in BOOLEAN : ProbeRegistered(e, ok)
    \/ \E e \in Endpoints, ok \in BOOLEAN : Dial(e, ok)
    \/ \E e \in Endpoints, ok \in BOOLEAN : ProbeDialed(e, ok)
    \/ \E e \in Endpoints : Heal(e)

Spec == Init /\ [][Next]_vars

\* what the goroutine of one endpoint can do next
TaskStep(endpoint) ==
    \/ Tick(endpoint)
    \/ \E ok \in BOOLEAN : ProbeRegistered(endpoint, ok)
    \/ \E ok \in BOOLEAN : Dial(endpoint, ok)
    \/ \E ok \in BOOLEAN : ProbeDialed(endpoint, ok)

\* Every goroutine's ticker keeps firing and its dial and probe calls
\* return (the dial is bounded by dialTimeout); newHAClient's loop only
\* sleeps between its passes.
FairSpec ==
    /\ Spec
    /\ \A e \in Endpoints : WF_vars(TaskStep(e))
    /\ WF_vars(Poll)
    /\ WF_vars(NewGiveUp)

\* The client with one caller of its selection calls: the goroutines, the
\* owner's Close() and a request path that calls FirstAvailable and
\* RoundRobin.
NextApi ==
    \/ \E eps \in Configs, probeSet \in BOOLEAN : New(eps, probeSet)
    \/ Poll
    \/ NewGiveUp
    \/ Close
    \/ \E e \in Endpoints : Tick(e)
    \/ \E e \in Endpoints, ok \in BOOLEAN : ProbeRegistered(e, ok)
    \/ \E e \in Endpoints, ok \in BOOLEAN : Dial(e, ok)
    \/ \E e \in Endpoints, ok \in BOOLEAN : ProbeDialed(e, ok)
    \/ FirstAvailable(Driver)
    \/ RoundRobin(Driver)

SpecApi == Init /\ [][NextApi]_vars

\* =====================================================================
\* Properties of the registry
\* =====================================================================
\* endpoints with a live connection, and the distinct endpoints known
Live == {e \in Endpoints : connSet[e] # Nil}
Known == Range(endpoints)

MinOf(S) == CHOOSE x \in S : \A y \in S : x = y \/ StrLess(x, y)

\* the endpoint after e when the set S is walked in sorted order, cyclically
NextInRotation(e, S) ==
    LET above == {y \in S : StrLess(e, y)}
    IN IF above = {} THEN MinOf(S) ELSE MinOf(above)

\* C1: with at least one of the N distinct endpoints live, a RoundRobinConn
\* call that has returned gave a live connection, not an error, after at
\* most N roundRobin lookups.
C1_RoundRobinLiveness ==
    (ret[Driver].op = "RoundRobin" /\ Live # {}) =>
        /\ ret[Driver].err = ""
        /\ ret[Driver].cc # Nil
        /\ ret[Driver].cc = connSet[ret[Driver].endpoint]
        /\ ret[Driver].n <= Cardinality(Known)

\* C2: with all N distinct endpoints live, N RoundRobinConn calls in a row
\* return every endpoint's connection once, each call the endpoint that
\* follows the previous call's in sorted order (cyclically).
C2_RoundRobinFairness ==
    LET N == Cardinality(Known)
        last == LastOf(rrLog, N)
    IN (Known # {} /\ Live = Known /\ Len(rrLog) >= N) =>
        /\ Range(last) = Known
        /\ \A i \in 1..(N - 1) : last[i + 1] = NextInRotation(last[i], Known)

\* C3: GetConn(e) returns the value last passed to ResetConn for e, and
\* every handle that a later ResetConn superseded was closed exactly once.
C3_GetReturnsLastRegistered ==
    /\ ret[Driver].op = "GetConn" => ret[Driver].cc = lastReg[ret[Driver].endpoint]
    /\ \A h \in registered :
          (\A e \in Endpoints : lastReg[e] # h) => closeCount[h] = 1

\* a GetConn that returned the second handle registered for its endpoint,
\* the first one superseded and closed; and a GetConn of a cleared endpoint
C3_Witness ==
    /\ ret[Driver].op = "GetConn"
    /\ ret[Driver].cc # Nil
    /\ \E h \in registered : h # ret[Driver].cc /\ closeCount[h] = 1
    /\ \E e \in Endpoints : lastReg[e] = Nil /\ e \in Known

\* C4: with at least one live connection, FirstAvailableConn returns the
\* connection of the smallest endpoint (in string order) that has one.
C4_FirstAvailableSmallest ==
    (ret[Driver].op = "FirstAvailable" /\ Live # {}) =>
        /\ ret[Driver].err = ""
        /\ ret[Driver].cc = connSet[MinOf(Live)]

\* "b" was registered before "a", both are live, and "a" was returned
C4_Witness ==
    /\ ret[Driver].op = "FirstAvailable"
    /\ connSet[<<2>>] # Nil
    /\ connSet[<<1>>] > connSet[<<2>>]
    /\ ret[Driver].cc = connSet[<<1>>]

\* C5: with no live connection, FirstAvailableConn and RoundRobinConn
\* return the "no available connection" error and no connection.
C5_NoLiveConnection ==
    (ret[Driver].op \in {"FirstAvailable", "RoundRobin"} /\ Live = {}) =>
        /\ ret[Driver].err = "NoAvailableConnection"
        /\ ret[Driver].cc = Nil

\* =====================================================================
\* Properties of the supervisor
\* =====================================================================
\* every handle dial has returned so far has been closed
AllDialedClosed == \A h \in Handles : h < nextHandle => closeCount[h] >= 1

\* C6: a Close() call after the first closes no connection and changes
\* nothing, and every connection that was in the registry when the first
\* call ran has been closed.
C6_CloseIdempotent ==
    /\ [][(onceDone /\ closeCalls' # closeCalls) =>
            UNCHANGED <<registryVars, connVars, callerVars, clientVars, lastReg,
                        registered, liveAtClose, rrLog, auxVars>>]_vars
    /\ [](onceDone => \A h \in liveAtClose : closeCount[h] >= 1)

\* Close() was called twice on a client whose registry held a connection
C6_Witness == closeCalls = 2 /\ onceDone /\ liveAtClose # {}

\* C7: Close() raises the cancellation signal, and a goroutine that leaves
\* its tick wait once Close() has been called exits instead of going on to
\* a probe or a dial.
C7_CloseStopsMonitoring ==
    /\ [](onceDone => ctxDone)
    /\ [][\A e \in Endpoints :
            (onceDone /\ taskpc[e] = "tick" /\ taskpc'[e] # "tick") =>
                taskpc'[e] = "exit"]_vars

\* C8: once Close() has been called, eventually every connection ever
\* dialed is closed, and stays closed.
C8_CloseIsTerminal == [](onceDone => <>[]AllDialedClosed)

\* C9: newHAClient makes at most 30 polls; it returns the client only at a
\* poll where a connection was live, counts a poll only when none was, and
\* returns the error only after 30 polls failed.
C9_StartupPolling ==
    /\ [](pollI \in 0..StartupPolls)
    /\ [][(phase = "poll" /\ phase' = "running") =>
            (Live # {} /\ pollI < StartupPolls)]_vars
    /\ [][(phase = "poll" /\ pollI' # pollI /\ phase' = "poll") =>
            (Live = {} /\ pollI' = pollI + 1)]_vars
    /\ [][(phase = "poll" /\ phase' = "failed") => pollI = StartupPolls]_vars
    /\ [](phase = "failed" => pollI = StartupPolls)

\* construction failed after the 30th poll, though a dial had succeeded
C9_Witness == phase = "failed" /\ pollI = StartupPolls /\ nextHandle > 1

\* C10: when newHAClient has returned the error, no goroutine it started
\* is still running and no connection it dialed is open.
C10_FailedConstructCleansUp ==
    phase = "failed" =>
        /\ \A e \in Endpoints : taskpc[e] \in {"none", "exit"}
        /\ AllDialedClosed

\* nothing of the client exists: no goroutine, no dialed connection, an
\* empty registry
NothingStarted ==
    /\ \A e \in Endpoints : taskpc[e] = "none" /\ connSet[e] = Nil
    /\ nextHandle = 1
    /\ endpoints = <<>>

\* C11: New with an empty endpoint list or without a readiness probe
\* returns the configuration error from the call itself, and then no
\* keepalive goroutine was started and no dial was made.
C11_InvalidConfiguration ==
    (args.called /\ (Len(args.eps) = 0 \/ ~args.probe)) =>
        (phase = "invalid" /\ NothingStarted)

\* New was refused for the missing probe alone, the endpoint list being fine
C11_Witness == phase = "invalid" /\ Len(args.eps) > 0 /\ ~args.probe

\* C12: m.endpoints holds no endpoint twice (ResetConn appends an endpoint
\* only when its scan did not find it), and holds every endpoint that
\* has a connection registered.
C12_EndpointsNoDuplicates ==
    /\ Cardinality(Known) = Len(endpoints)
    /\ \A e \in Endpoints : lastReg[e] # Nil => e \in Known

\* C18: for every value of the int32 cursor, the values after overflow
\* included, the index that the next lookup computes from it lies in
\* 0..N-1 for the N entries of m.endpoints, so no lookup indexes out of
\* range.
C18_CursorIndexInRange ==
    /\ Len(endpoints) > 0 =>
          GoRem(AddInt32(lastRoundRobinIdx, 1), Len(endpoints))
              \in 0..(Len(endpoints) - 1)
    /\ ~panicked

C15_ClosedAtMostOnce == \A h \in Handles : closeCount[h] <= 1

\* C16: a connection that FirstAvailable or RoundRobin returns has not been
\* closed by the registry (CloseAll, ResetConn) or by keepalive at the step
\* that returns it, a call made after Close() included.
C16_ReturnedNotClosed ==
    [][\A p \in Callers :
          (ret'[p] # ret[p] /\ ret'[p].cc # Nil) => closeCount'[ret'[p].cc] = 0]_vars

\* C17: ResetConn closes the old connection and rewrites the slot under one
\* write lock, so in no state that a GetConn, FirstAvailableConn or
\* roundRobin can read is a connection that was registered out of every
\* slot and still open, and none is in a slot after ResetConn closed it
\* (a closed connection in a slot was closed by CloseAll).
C17_ClearIsAtomic ==
    /\ \A h \in registered :
          (\A e \in Endpoints : connSet[e] # h) => closeCount[h] >= 1
    /\ \A e \in Endpoints :
          (connSet[e] # Nil /\ closeCount[connSet[e]] >= 1) => onceDone

\* the only connection ever dialed was registered, failed a later probe and
\* was cleared, and a FirstAvailable call then found the registry empty
C17_Witness ==
    /\ nextHandle = 2
    /\ 1 \in registered /\ lastProbe[1] = "fail" /\ closeCount[1] = 1
    /\ ~onceDone
    /\ ret[Driver].op = "FirstAvailable"
    /\ ret[Driver].err = "NoAvailableConnection"

\* C13: a RoundRobinConn call makes at most N + 1 roundRobin() lookups, N
\* being the number of distinct endpoints of the registry, whatever other
\* callers of RoundRobinConn and the goroutines' ResetConn calls do in
\* between; no call goes on looping.
C13_RoundRobinBoundedLookups ==
    \A p \in Callers :
        /\ attempts[p] <= Cardinality(Known) + 1
        /\ ret[p].op = "RoundRobin" => ret[p].n <= Cardinality(Known) + 1

\* some caller's RoundRobinConn made a roundRobin() lookup in this step, as
\* its own variables show
LookupStep ==
    \E p \in Callers :
        \/ attempts'[p] > attempts[p]
        \/ rrpc[p] = "loop" /\ rrpc'[p] = "idle"
        \/ ret'[p].op = "RoundRobin" /\ ret'[p] # ret[p]

\* a GetConn or FirstAvailableConn was answered, or ResetConn wrote the
\* registry, in this step
OtherStep ==
    \/ \E p \in Callers :
          ret'[p].op \in {"GetConn", "FirstAvailable"} /\ ret'[p] # ret[p]
    \/ connSet' # connSet
    \/ endpoints' # endpoints

RECURSIVE RoundRobinConnAlone(_, _)
RoundRobinConnAlone(cursor, first) ==
    IF Len(endpoints) = 0 THEN [cc |-> Nil, err |-> "NoAvailableConnection"]
    ELSE LET idx == AddInt32(cursor, 1)
             i == GoRem(idx, Len(endpoints))
         IN IF i < 0 THEN [cc |-> Nil, err |-> "panic"]
            ELSE LET endpoint == endpoints[i + 1]
                     cc == connSet[endpoint]
                 IN IF cc # Nil THEN [cc |-> cc, err |-> ""]
                    ELSE IF first = EmptyString
                    THEN RoundRobinConnAlone(idx, endpoint)
                    ELSE IF first = endpoint
                    THEN [cc |-> Nil, err |-> "NoAvailableConnection"]
                    ELSE RoundRobinConnAlone(idx, first)

\* an endpoint whose dial and probes succeed from now on has its connection
\* registered, on a client that New returned and nobody closed
Healed ==
    /\ phase = "running"
    /\ ~onceDone
    /\ \E e \in Endpoints : healthy[e] /\ connSet[e] # Nil

\* C20: the keepalive goroutines go on after every dial and probe failure,
\* so once an endpoint whose dial and probes succeed from then on has got
\* its connection registered, on a client that is not closed, FirstAvailable
\* and RoundRobin no longer fail with NoAvailableConnection.
C20_SelfHeal ==
    Healed =>
        /\ FirstAvailableConn.err = ""
        /\ RoundRobinConnAlone(lastRoundRobinIdx, EmptyString).err = ""

====
